---------------------------- MODULE Spec2Model ----------------------------
(***************************************************************************)
(* Flight-route lookup service: the query layer of crud.py over the        *)
(* Airport / Airline / Route tables that data_loader.py fills.             *)
(*                                                                         *)
(* Strings that are matched with ILIKE are sequences of one-character      *)
(* strings; codes that are only compared for equality are plain strings.   *)
(* None is the Python None / SQL NULL.                                     *)
(***************************************************************************)
EXTENDS Integers, Sequences, FiniteSets, TLC

\* None in a string column
None == "<None>"

\* None in an integer column (no row of the model has this id)
NoneId == 0

\* None where a row is expected: the result of .first() on an empty query
NoRow == [absent |-> TRUE]

(***************************************************************************)
(* Bounds of the model.                                                    *)
(***************************************************************************)
\* rows of table routes
MaxRoutes == 3

\* page runs over 1 - PagesBelowOne .. MaxPage
MaxPage == 3

PagesBelowOne == 2

\* per_page runs over 1 - PerPagesBelowOne .. MaxPerPage
MaxPerPage == 2

PerPagesBelowOne == 1

(***************************************************************************)
(* Generic sequence helpers.                                               *)
(***************************************************************************)
Range(s) == {s[i] : i \in 1..Len(s)}

Min2(a, b) == IF a < b THEN a ELSE b

Max2(a, b) == IF a > b THEN a ELSE b

RECURSIVE SelectIdx(_, _, _)
\* the elements of s at the indices in keep, from index i on, in order
SelectIdx(s, keep, i) ==
    IF i > Len(s) THEN <<>>
    ELSE (IF i \in keep THEN <<s[i]>> ELSE <<>>) \o SelectIdx(s, keep, i + 1)

Perms(S) == {p \in [1..Cardinality(S) -> S] : \A x \in S : \E i \in DOMAIN p : p[i] = x}

(***************************************************************************)
(* models.py: the rows.                                                    *)
(***************************************************************************)
Airport(id, city, country, iata, icao, lat, lon) ==
    [id |-> id, city |-> city, country |-> country, iata |-> iata,
     icao |-> icao, latitude |-> lat, longitude |-> lon]

Airline(id, iata, icao) == [id |-> id, iata |-> iata, icao |-> icao]

Route(id, airline_code, airline_id, source_code, source_id, dest_code, dest_id, stops) ==
    [id |-> id, airline_code |-> airline_code, airline_id |-> airline_id,
     source_code |-> source_code, source_id |-> source_id,
     dest_code |-> dest_code, dest_id |-> dest_id, stops |-> stops]

(***************************************************************************)
(* The airports and airlines that load_airports / load_airlines commit     *)
(* before load_routes runs: one airport with both codes, one with only an  *)
(* ICAO code, one whose IATA field is the empty string and whose ICAO      *)
(* field is \N.  The airport table is scanned in primary-key order.        *)
(***************************************************************************)
Berlin == <<"B", "e", "r">>
Germany == <<"G", "e", "r">>
Dubai == <<"D", "u">>
Emirates == <<"U", "A", "E">>
Singapore == <<"S", "i", "n">>

LoadedAirports ==
    << Airport(1, Berlin, Germany, "TXL", "EDDT", 52, 13),
       Airport(2, Dubai, Emirates, None, "OMDB", 25, 55),
       Airport(3, Singapore, Singapore, "", None, 1, 103) >>

LoadedAirlines == << Airline(1, "SU", "AFL") >>

(***************************************************************************)
(* Lines of routes.dat: row[0] airline, row[2] source code, row[4]         *)
(* destination code, row[7] stops.                                         *)
(***************************************************************************)
Line(airline, src, dst, stops) == [airline |-> airline, src |-> src, dst |-> dst, stops |-> stops]

RouteLines ==
    { Line("SU", "TXL", "OMDB", <<"0">>),       \* Berlin -> Dubai, airline resolves
      Line("ZZ", "EDDT", "OMDB", <<"0">>),      \* Berlin -> Dubai, airline unknown
      Line("", "OMDB", "", <<"0">>),            \* Dubai -> Singapore, empty airline code
      Line("AFL", "OMDB", "", <<"1">>),         \* Dubai -> Singapore, one stop
      Line("SU", "", "TXL", <<"\\", "N">>),     \* Singapore -> Berlin, stops not numeric
      Line("SU", "TXL", "XXX", <<"0">>) }       \* destination code matches no airport

VARIABLES
    airports,     \* table airports, in primary-key order
    airlines,     \* table airlines
    routes,       \* table routes, in rowid (insertion) order
    phase,        \* "import" while load_routes runs, "serving" afterwards
    \* the request being served: the called function, its arguments, the
    \* statement it has reached and its local variables
    fn,
    args,
    pc,
    offset,
    dep_ids,
    arr_ids,
    first_legs,
    via_ids,
    second_legs,
    results,
    ret,          \* the returned (items, total), NoReturn before the return
    qlog,         \* the queries the session has issued for this request, in order
    peer,         \* a second request served at the same time by another worker
                  \* thread: its arguments, position, local variables and result
    requests,     \* the HTTP requests that depend on get_db: how far each has
                  \* come and the session get_db gave it
    sessions,     \* the sessions SessionLocal() has made, in order of creation
    script        \* a run of data_loader.py as a script: the statement it has
                  \* reached, its session and the files it reads

storeVars == <<airports, airlines, routes>>

httpVars == <<requests, sessions>>

sessionVars == <<httpVars, script>>

\* most requests that are being served at the same time
MaxRequests == 2

RequestIds == 1..MaxRequests

\* a request that has not reached get_db yet: no session, no outcome
NewRequest == [st |-> "new", db |-> 0, queried |-> FALSE, outcome |-> "none"]

NoRequests == [r \in RequestIds |-> NewRequest]

\* data_loader.py is not running as a script
NoScript == [pc |-> "none"]

localVars == <<offset, dep_ids, arr_ids, first_legs, via_ids, second_legs, results>>

reqVars == <<fn, args, pc, localVars, ret, qlog>>

(***************************************************************************)
(* data_loader.py                                                          *)
(***************************************************************************)
\* SQL equality: NULL equals nothing
SqlEq(col, v) == col # None /\ col = v

\* query(...).filter(or_(X.iata == code, X.icao == code)).first()
FirstByCode(table, code) ==
    LET hit(i) == SqlEq(table[i].iata, code) \/ SqlEq(table[i].icao, code)
        hits == SelectIdx(table, {x \in 1..Len(table) : hit(x)}, 1)
    IN  IF hits = <<>> THEN NoRow ELSE hits[1]

\* the decimal digits, each at the place of its value plus one
DecimalChars == <<"0", "1", "2", "3", "4", "5", "6", "7", "8", "9">>

\* a character that str.isdigit() accepts and int() rejects: SUPERSCRIPT TWO
\* (U+00B2), written here in ASCII
SuperscriptTwo == "^2"

\* str.isdigit(): not empty, and every character is a digit character
IsDigit(s) ==
    /\ Len(s) > 0
    /\ \A i \in 1..Len(s) : s[i] \in Range(DecimalChars) \cup {SuperscriptTwo}

\* int(s) raises ValueError on a string that isdigit() accepted
IntRaises(s) == \E i \in 1..Len(s) : s[i] \notin Range(DecimalChars)

DigitValue(ch) == (CHOOSE k \in 1..10 : DecimalChars[k] = ch) - 1

RECURSIVE ToInt(_)
\* int(s) of a string of decimal digits
ToInt(s) ==
    IF s = <<>> THEN 0
    ELSE 10 * ToInt(SubSeq(s, 1, Len(s) - 1)) + DigitValue(s[Len(s)])

\* int(row[7]) for every field that int() converts, with its sign
ParseStops_Signed(s) ==
    IF Len(s) > 1 /\ s[1] = "-" /\ IsDigit(Tail(s)) THEN 0 - ToInt(Tail(s))
    ELSE IF IsDigit(s) THEN ToInt(s) ELSE 0

\* int(row[7]) if row[7].isdigit() else 0
ParseStops(s) == IF IsDigit(s) THEN ToInt(s) ELSE 0

\* LoadRoutesRow that persists every line, with a null id for an airport
\* that did not resolve
LoadRoutesRow_KeepUnresolved(row) ==
    LET source == FirstByCode(airports, row.src)
        dest == FirstByCode(airports, row.dst)
        airline == FirstByCode(airlines, row.airline)
    IN  Append(routes,
               Route(Len(routes) + 1, row.airline,
                     IF airline # NoRow THEN airline.id ELSE NoneId,
                     row.src, IF source # NoRow THEN source.id ELSE NoneId,
                     row.dst, IF dest # NoRow THEN dest.id ELSE NoneId,
                     ParseStops(row.stops)))

\* one iteration of the loop of load_routes
LoadRoutesRow(row) ==
    LET source == FirstByCode(airports, row.src)
        dest == FirstByCode(airports, row.dst)
        airline == FirstByCode(airlines, row.airline)
    IN  IF source # NoRow /\ dest # NoRow
        THEN Append(routes,
                    Route(Len(routes) + 1, row.airline,
                          IF airline # NoRow THEN airline.id ELSE NoneId,
                          row.src, source.id, row.dst, dest.id,
                          ParseStops(row.stops)))
        ELSE routes

\* the row was persisted from this line of the file
FromLine(route, row) ==
    /\ route.airline_code = row.airline
    /\ route.source_code = row.src
    /\ route.dest_code = row.dst

\* the next line of routes.dat; the file lists a route at most once
LoadRoute ==
    /\ phase = "import"
    /\ Len(routes) < MaxRoutes
    /\ \E row \in RouteLines :
          /\ \A i \in 1..Len(routes) : ~ FromLine(routes[i], row)
          /\ routes' = LoadRoutesRow(row)
    /\ UNCHANGED <<airports, airlines, phase, reqVars, peer, sessionVars>>

\* end of the file: session.commit(), db.close()
FinishImport ==
    /\ phase = "import"
    /\ phase' = "serving"
    /\ UNCHANGED <<storeVars, reqVars, peer, sessionVars>>

vars == <<airports, airlines, routes, phase, reqVars, peer, sessionVars>>

NoReturn == [returned |-> FALSE]

\* no second request is being served
NoPeer == [pc |-> "idle", args |-> <<>>, offset |-> 0, dep_ids |-> <<>>,
           arr_ids |-> <<>>, first_legs |-> <<>>, via_ids |-> <<>>,
           second_legs |-> <<>>, results |-> <<>>, ret |-> NoReturn]

(***************************************************************************)
(* crud.py: what the queries compute.  db is the session's view of the     *)
(* store, [airports |-> ..., routes |-> ...].  A query without ORDER BY    *)
(* over these tables is a table scan (no index covers city, country,       *)
(* source_id, dest_id or stops), so rows come back in table order.         *)
(***************************************************************************)
DB == [airports |-> airports, routes |-> routes]

\* lower() of SQLite, on the characters the model uses
Lower(c) ==
    CASE c = "A" -> "a" [] c = "B" -> "b" [] c = "D" -> "d" [] c = "E" -> "e"
      [] c = "G" -> "g" [] c = "S" -> "s" [] c = "U" -> "u" [] OTHER -> c

RECURSIVE Like(_, _)
\* s LIKE p: % matches any run of characters, _ any one character
Like(p, s) ==
    IF p = <<>> THEN s = <<>>
    ELSE IF Head(p) = "%"
         THEN Like(Tail(p), s) \/ (s # <<>> /\ Like(p, Tail(s)))
         ELSE /\ s # <<>>
              /\ (Head(p) = "_" \/ Head(p) = Head(s))
              /\ Like(Tail(p), Tail(s))

LowerStr(s) == [i \in 1..Len(s) |-> Lower(s[i])]

\* column.ilike(pattern): lower(column) LIKE lower(pattern)
ILike(col, pattern) == Like(LowerStr(pattern), LowerStr(col))

\* f"%{x}%"
Wrap(x) == <<"%">> \o x \o <<"%">>

\* db.query(Airport).filter(Airport.city.ilike(f"%{city}%"),
\*                          Airport.country.ilike(f"%{country}%")).all()
FilterAirports(db, city, country) ==
    LET keep(i) == /\ ILike(db.airports[i].city, Wrap(city))
                   /\ ILike(db.airports[i].country, Wrap(country))
    IN  SelectIdx(db.airports, {x \in 1..Len(db.airports) : keep(x)}, 1)

\* [a.id for a in rows]
Ids(rows) == [i \in 1..Len(rows) |-> rows[i].id]

\* column.in_(ids)
InList(x, ids) == x \in Range(ids)

\* FirstLegs without the filter Route.stops == 0
FirstLegs_AnyStops(db, depIds) ==
    LET keep(i) == InList(db.routes[i].source_id, depIds)
    IN  SelectIdx(db.routes, {x \in 1..Len(db.routes) : keep(x)}, 1)

\* db.query(Route).filter(Route.source_id.in_(dep_ids), Route.stops == 0).all()
FirstLegs(db, depIds) ==
    LET keep(i) == InList(db.routes[i].source_id, depIds) /\ db.routes[i].stops = 0
    IN  SelectIdx(db.routes, {x \in 1..Len(db.routes) : keep(x)}, 1)

\* ViaSet that keeps the destination of the first leg only
ViaSet_FirstOnly(legs) == IF legs = <<>> THEN {} ELSE {legs[1].dest_id}

\* ViaSet that takes the airports at both ends of the first legs
ViaSet_BothEnds(legs) ==
    {legs[i].dest_id : i \in 1..Len(legs)} \cup {legs[i].source_id : i \in 1..Len(legs)}

\* set(leg.dest_id for leg in first_legs)
ViaSet(legs) == {legs[i].dest_id : i \in 1..Len(legs)}

\* SecondLegs that fetches the legs out of one via airport after another,
\* in the order of via_ids
SecondLegs_ViaOrder(db, viaIds, arrIds) ==
    LET keep(i) == /\ InList(db.routes[i].source_id, viaIds)
                   /\ InList(db.routes[i].dest_id, arrIds)
                   /\ db.routes[i].stops = 0
        rows == SelectIdx(db.routes, {x \in 1..Len(db.routes) : keep(x)}, 1)
        pos(x) == CHOOSE j \in 1..Len(viaIds) : viaIds[j] = x
        key(i) == pos(rows[i].source_id) * (Len(rows) + 1) + i
        rank(i) == Cardinality({j \in 1..Len(rows) : key(j) < key(i)}) + 1
    IN  [k \in 1..Len(rows) |-> rows[CHOOSE i \in 1..Len(rows) : rank(i) = k]]

\* SecondLegs that takes a second leg with any number of stops
SecondLegs_AnyStops(db, viaIds, arrIds) ==
    LET keep(i) == /\ InList(db.routes[i].source_id, viaIds)
                   /\ InList(db.routes[i].dest_id, arrIds)
    IN  SelectIdx(db.routes, {x \in 1..Len(db.routes) : keep(x)}, 1)

\* db.query(Route).filter(Route.source_id.in_(via_ids), Route.dest_id.in_(arr_ids),
\*                        Route.stops == 0).all()
SecondLegs(db, viaIds, arrIds) ==
    LET keep(i) == /\ InList(db.routes[i].source_id, viaIds)
                   /\ InList(db.routes[i].dest_id, arrIds)
                   /\ db.routes[i].stops = 0
    IN  SelectIdx(db.routes, {x \in 1..Len(db.routes) : keep(x)}, 1)

\* AirportById that takes the id for a zero-based position in the table
AirportById_ZeroBased(db, id) ==
    IF id + 1 \in 1..Len(db.airports) THEN db.airports[id + 1] ELSE NoRow

\* db.query(Airport).filter(Airport.id == id).first()
AirportById(db, id) ==
    LET keep(i) == db.airports[i].id = id
        hits == SelectIdx(db.airports, {x \in 1..Len(db.airports) : keep(x)}, 1)
    IN  IF hits = <<>> THEN NoRow ELSE hits[1]

\* truth value of a string or None
Truthy(x) == x # None /\ x # ""

\* a or b
PyOr(a, b) == IF Truthy(a) THEN a ELSE b

\* DisplayCode that prefers the ICAO code
DisplayCode_IcaoFirst(airport) == PyOr(PyOr(airport.icao, airport.iata), "N/A")

\* airport.iata or airport.icao or "N/A"
DisplayCode(airport) == PyOr(PyOr(airport.iata, airport.icao), "N/A")

\* DisplayAirline without the fallback
DisplayAirline_NoFallback(leg) == leg.airline_code

\* leg.airline_code or "Unknown"
DisplayAirline(leg) == PyOr(leg.airline_code, "Unknown")

\* JoinPairs that emits one pair per (origin, via, destination) airport triple
JoinPairs_Dedup(firstLegs, secondLegs) ==
    LET n == Len(firstLegs)
        m == Len(secondLegs)
        pairs == [k \in 1..(n * m) |->
                    <<firstLegs[((k - 1) \div m) + 1], secondLegs[((k - 1) % m) + 1]>>]
        same(j, k) == /\ pairs[j][1].source_id = pairs[k][1].source_id
                      /\ pairs[j][1].dest_id = pairs[k][1].dest_id
                      /\ pairs[j][2].dest_id = pairs[k][2].dest_id
        match(k) == pairs[k][1].dest_id = pairs[k][2].source_id
        keep(k) == match(k) /\ ~ \E j \in 1..(k - 1) : match(j) /\ same(j, k)
    IN  SelectIdx(pairs, {x \in 1..Len(pairs) : keep(x)}, 1)

\* JoinPairs that passes over a pair with an airport id that has no row
JoinPairs_SkipUnresolved(firstLegs, secondLegs) ==
    LET n == Len(firstLegs)
        m == Len(secondLegs)
        pairs == [k \in 1..(n * m) |->
                    <<firstLegs[((k - 1) \div m) + 1], secondLegs[((k - 1) % m) + 1]>>]
        keep(k) == /\ pairs[k][1].dest_id = pairs[k][2].source_id
                   /\ AirportById(DB, pairs[k][1].source_id) # NoRow
                   /\ AirportById(DB, pairs[k][1].dest_id) # NoRow
                   /\ AirportById(DB, pairs[k][2].dest_id) # NoRow
    IN  SelectIdx(pairs, {x \in 1..Len(pairs) : keep(x)}, 1)

\* the pairs of the nested loop that pass the test first.dest_id == second.source_id,
\* in the order of the loop (first legs outside, second legs inside)
JoinPairs(firstLegs, secondLegs) ==
    LET n == Len(firstLegs)
        m == Len(secondLegs)
        pairs == [k \in 1..(n * m) |->
                    <<firstLegs[((k - 1) \div m) + 1], secondLegs[((k - 1) % m) + 1]>>]
        keep(k) == pairs[k][1].dest_id = pairs[k][2].source_id
    IN  SelectIdx(pairs, {x \in 1..Len(pairs) : keep(x)}, 1)

\* the object appended for one pair.  leg1 and leg2 are not fields of the
\* object: they record which route rows the itinerary was built from.
Itinerary(db, first, second) ==
    LET from_airport == AirportById(db, first.source_id)
        via_airport == AirportById(db, first.dest_id)
        to_airport == AirportById(db, second.dest_id)
    IN  [airline1 |-> DisplayAirline(first),
         from1 |-> DisplayCode(from_airport),
         from_city |-> from_airport.city,
         via |-> DisplayCode(via_airport),
         via_city |-> via_airport.city,
         airline2 |-> DisplayAirline(second),
         to |-> DisplayCode(to_airport),
         to_city |-> to_airport.city,
         leg1 |-> first.id,
         leg2 |-> second.id]

\* an airport lookup of the pair returns None: the attribute access raises
LookupFails(db, pair) ==
    \/ AirportById(db, pair[1].source_id) = NoRow
    \/ AirportById(db, pair[1].dest_id) = NoRow
    \/ AirportById(db, pair[2].dest_id) = NoRow

BuildResults(db, pairs) == [k \in 1..Len(pairs) |-> Itinerary(db, pairs[k][1], pairs[k][2])]

\* PySlice that takes a negative index for 0
PySlice_ClampNegative(s, start, stop) ==
    LET n == Len(s)
        norm(i) == IF i < 0 THEN 0 ELSE Min2(i, n)
    IN  SubSeq(s, norm(start) + 1, norm(stop))

\* s[start:stop] of a Python list
PySlice(s, start, stop) ==
    LET n == Len(s)
        norm(i) == IF i < 0 THEN Max2(i + n, 0) ELSE Min2(i, n)
    IN  SubSeq(s, norm(start) + 1, norm(stop))

\* SqlOffsetLimit that cuts to the limit before it skips the offset
SqlOffsetLimit_LimitFirst(rows, off, limit) ==
    LET cut == IF limit < 0 THEN rows ELSE SubSeq(rows, 1, Min2(limit, Len(rows)))
    IN  SubSeq(cut, Max2(off, 0) + 1, Len(cut))

\* query.offset(offset).limit(limit).all() on SQLite: a negative LIMIT is no
\* limit, a negative OFFSET is no offset
SqlOffsetLimit(rows, off, limit) ==
    LET rest == SubSeq(rows, Max2(off, 0) + 1, Len(rows))
    IN  IF limit < 0 THEN rest ELSE SubSeq(rest, 1, Min2(limit, Len(rest)))

\* Offset that counts pages from zero
Offset_PageFromZero(page, per_page) == page * per_page

\* offset = (page - 1) * per_page
Offset(page, per_page) == (page - 1) * per_page

(***************************************************************************)
(* Arguments of the calls.                                                 *)
(***************************************************************************)
PyInt(n) == [type |-> "int", v |-> n]

PyStr(x) == [type |-> "str", s |-> x]

\* (city, country) as typed into the forms
CityArgs ==
    { <<<<"b", "E">>, <<"g">>>>,       \* part of Berlin / part of Germany
      <<<<>>, <<>>>>,                  \* both empty
      <<<<"z">>, <<>>>> }              \* no such city

Pages == {PyInt(n) : n \in (1 - PagesBelowOne)..MaxPage} \cup {PyStr("abc")}

PerPages == (1 - PerPagesBelowOne)..MaxPerPage

(***************************************************************************)
(* crud.py: get_connecting_flights, statement by statement.                *)
(***************************************************************************)
Return(items, total) == [returned |-> TRUE, items |-> items, total |-> total]

\* the call and line 292: page - 1 raises TypeError when page is not a number
CallConnecting ==
    /\ phase = "serving"
    /\ pc = "idle"
    /\ \E c1 \in CityArgs, c2 \in CityArgs, page \in Pages, per_page \in PerPages :
          /\ fn' = "get_connecting_flights"
          /\ args' = [city1 |-> c1[1], country1 |-> c1[2],
                      city2 |-> c2[1], country2 |-> c2[2],
                      page |-> page, per_page |-> per_page]
          /\ IF page.type = "int"
             THEN offset' = Offset(page.v, per_page) /\ pc' = "dep"
             ELSE offset' = offset /\ pc' = "raised"
    /\ UNCHANGED <<storeVars, phase, peer, sessionVars, dep_ids, arr_ids, first_legs, via_ids,
                   second_legs, results, ret, qlog>>

\* lines 295-299
ResolveDep ==
    /\ fn = "get_connecting_flights" /\ pc = "dep"
    /\ dep_ids' = Ids(FilterAirports(DB, args.city1, args.country1))
    /\ qlog' = Append(qlog, "airports")
    /\ pc' = "arr"
    /\ UNCHANGED <<storeVars, phase, peer, sessionVars, fn, args, offset, arr_ids, first_legs, via_ids,
                   second_legs, results, ret>>

\* NoAirports that wants both lists empty
NoAirports_Both(depIds, arrIds) == depIds = <<>> /\ arrIds = <<>>

\* NoAirports that never returns early
NoAirports_Never(depIds, arrIds) == FALSE

\* line 308: not dep_ids or not arr_ids
NoAirports(depIds, arrIds) == depIds = <<>> \/ arrIds = <<>>

\* NoFirstLegs that never returns early
NoFirstLegs_Never(legs) == FALSE

\* line 317: not first_legs
NoFirstLegs(legs) == legs = <<>>

\* lines 302-309
ResolveArr ==
    /\ fn = "get_connecting_flights" /\ pc = "arr"
    /\ arr_ids' = Ids(FilterAirports(DB, args.city2, args.country2))
    /\ qlog' = Append(qlog, "airports")
    /\ IF NoAirports(dep_ids, arr_ids')
       THEN ret' = Return(<<>>, 0) /\ pc' = "done"
       ELSE ret' = ret /\ pc' = "first"
    /\ UNCHANGED <<storeVars, phase, peer, sessionVars, fn, args, offset, dep_ids, first_legs, via_ids,
                   second_legs, results>>

\* lines 312-321; list(set(...)) lists the via airports in an order the
\* language does not fix
FetchFirstLegs ==
    /\ fn = "get_connecting_flights" /\ pc = "first"
    /\ first_legs' = FirstLegs(DB, dep_ids)
    /\ qlog' = Append(qlog, "routes")
    /\ IF NoFirstLegs(first_legs')
       THEN ret' = Return(<<>>, 0) /\ pc' = "done" /\ via_ids' = via_ids
       ELSE ret' = ret /\ pc' = "second" /\ via_ids' \in Perms(ViaSet(first_legs'))
    /\ UNCHANGED <<storeVars, phase, peer, sessionVars, fn, args, offset, dep_ids, arr_ids,
                   second_legs, results>>

\* lines 324-328
FetchSecondLegs ==
    /\ fn = "get_connecting_flights" /\ pc = "second"
    /\ second_legs' = SecondLegs(DB, via_ids, arr_ids)
    /\ qlog' = Append(qlog, "routes")
    /\ pc' = "join"
    /\ UNCHANGED <<storeVars, phase, peer, sessionVars, fn, args, offset, dep_ids, arr_ids,
                   first_legs, via_ids, results, ret>>

\* lines 331-358: three airport lookups for every pair that passes the test;
\* the loop stops with AttributeError at the first pair with a lookup that
\* finds no row
JoinLoop ==
    /\ fn = "get_connecting_flights" /\ pc = "join"
    /\ LET pairs == JoinPairs(first_legs, second_legs)
           bad(k) == LookupFails(DB, pairs[k])
           failing == {k \in 1..Len(pairs) : bad(k)}
           lookups(n) == [i \in 1..(3 * n) |-> "airport by id"]
       IN  IF failing = {}
           THEN /\ results' = BuildResults(DB, pairs)
                /\ qlog' = qlog \o lookups(Len(pairs))
                /\ pc' = "slice"
           ELSE /\ results' = BuildResults(DB, SubSeq(pairs, 1,
                                  (CHOOSE k \in failing : \A j \in failing : k <= j) - 1))
                /\ qlog' = qlog \o lookups(CHOOSE k \in failing : \A j \in failing : k <= j)
                /\ pc' = "raised"
    /\ UNCHANGED <<storeVars, phase, peer, sessionVars, fn, args, offset, dep_ids, arr_ids,
                   first_legs, via_ids, second_legs, ret>>

\* lines 360-364
SliceAndReturn ==
    /\ fn = "get_connecting_flights" /\ pc = "slice"
    /\ ret' = Return(PySlice(results, offset, offset + args.per_page), Len(results))
    /\ pc' = "done"
    /\ UNCHANGED <<storeVars, phase, peer, sessionVars, fn, args, localVars, qlog>>

\* lines 294-358 as one expression: the list the function slices, empty on
\* the two early returns
ConnectingResults(db, city1, country1, city2, country2) ==
    LET depIds == Ids(FilterAirports(db, city1, country1))
        arrIds == Ids(FilterAirports(db, city2, country2))
        firstLegs == FirstLegs(db, depIds)
        viaIds == CHOOSE p \in Perms(ViaSet(firstLegs)) : TRUE
    IN  IF NoAirports(depIds, arrIds) \/ NoFirstLegs(firstLegs)
        THEN <<>>
        ELSE BuildResults(db, JoinPairs(firstLegs, SecondLegs(db, viaIds, arrIds)))

(***************************************************************************)
(* crud.py: the queries that paginate in the store.                        *)
(***************************************************************************)
\* (lat_min, lat_max, lon_min, lon_max)
CoordArgs == { <<0, 60, 0, 110>>, <<20, 60, 10, 60>>, <<60, 70, 0, 10>> }

\* column.between(lo, hi)
Between(x, lo, hi) == lo <= x /\ x <= hi

\* lines 43-46
AirportsInCoords(db, lat_min, lat_max, lon_min, lon_max) ==
    LET keep(i) == /\ Between(db.airports[i].latitude, lat_min, lat_max)
                   /\ Between(db.airports[i].longitude, lon_min, lon_max)
    IN  SelectIdx(db.airports, {x \in 1..Len(db.airports) : keep(x)}, 1)

\* lines 126-128
RoutesToFrom(db, airport_ids) ==
    LET keep(i) == \/ InList(db.routes[i].source_id, airport_ids)
                   \/ InList(db.routes[i].dest_id, airport_ids)
    IN  SelectIdx(db.routes, {x \in 1..Len(db.routes) : keep(x)}, 1)

\* DirectRoutesBetween that looks from the first city to the second only
DirectRoutesBetween_OneWay(db, ids1, ids2) ==
    LET keep(i) ==
            /\ InList(db.routes[i].source_id, ids1) /\ InList(db.routes[i].dest_id, ids2)
            /\ db.routes[i].stops = 0
    IN  SelectIdx(db.routes, {x \in 1..Len(db.routes) : keep(x)}, 1)

\* lines 188-191
DirectRoutesBetween(db, ids1, ids2) ==
    LET keep(i) ==
            /\ \/ InList(db.routes[i].source_id, ids1) /\ InList(db.routes[i].dest_id, ids2)
               \/ InList(db.routes[i].source_id, ids2) /\ InList(db.routes[i].dest_id, ids1)
            /\ db.routes[i].stops = 0
    IN  SelectIdx(db.routes, {x \in 1..Len(db.routes) : keep(x)}, 1)

\* total = query.count(); items = query.offset(offset).limit(per_page).all()
CountAndPage(rows, off, per_page) == Return(SqlOffsetLimit(rows, off, per_page), Len(rows))

\* OnlyResult of a function that empties the routes table on its way
OnlyResult_DeletesRoutes ==
    /\ routes' = <<>>
    /\ UNCHANGED <<airports, airlines, phase, peer, sessionVars, dep_ids, arr_ids, first_legs,
                   via_ids, second_legs, results>>

\* what a whole-function action leaves alone
OnlyResult == UNCHANGED <<storeVars, phase, peer, sessionVars, dep_ids, arr_ids, first_legs, via_ids,
                          second_legs, results>>

\* the first statement of every function, offset = (page - 1) * per_page,
\* raises TypeError when page is not a number
RaiseAtOffset ==
    /\ offset' = offset
    /\ ret' = ret
    /\ qlog' = qlog
    /\ pc' = "raised"

\* lines 42-49
get_airports_in_coords ==
    /\ phase = "serving"
    /\ pc = "idle"
    /\ \E box \in CoordArgs, page \in Pages, per_page \in PerPages :
          /\ fn' = "get_airports_in_coords"
          /\ args' = [lat_min |-> box[1], lat_max |-> box[2], lon_min |-> box[3],
                      lon_max |-> box[4], page |-> page, per_page |-> per_page]
          /\ IF page.type = "int"
             THEN /\ offset' = Offset(page.v, per_page)
                  /\ ret' = CountAndPage(AirportsInCoords(DB, box[1], box[2], box[3], box[4]),
                                         offset', per_page)
                  /\ qlog' = <<"count airports", "airports">>
                  /\ pc' = "done"
             ELSE RaiseAtOffset
    /\ OnlyResult

\* lines 76-83, one call
AirportByCityCountry(city, country, page, per_page) ==
    /\ fn' = "get_airport_by_city_country"
    /\ args' = [city |-> city, country |-> country, page |-> page, per_page |-> per_page]
    /\ IF page.type = "int"
       THEN /\ offset' = Offset(page.v, per_page)
            /\ ret' = CountAndPage(FilterAirports(DB, city, country), offset', per_page)
            /\ qlog' = <<"count airports", "airports">>
            /\ pc' = "done"
       ELSE RaiseAtOffset
    /\ OnlyResult

\* lines 52-83
get_airport_by_city_country ==
    /\ phase = "serving"
    /\ pc = "idle"
    /\ \E c \in CityArgs, page \in Pages, per_page \in PerPages :
          AirportByCityCountry(c[1], c[2], page, per_page)

\* lines 114-131
get_flights_to_from_city ==
    /\ phase = "serving"
    /\ pc = "idle"
    /\ \E c \in CityArgs, page \in Pages, per_page \in PerPages :
          /\ fn' = "get_flights_to_from_city"
          /\ args' = [city |-> c[1], country |-> c[2], page |-> page, per_page |-> per_page]
          /\ IF page.type = "int"
             THEN LET airport_ids == Ids(FilterAirports(DB, c[1], c[2]))
                  IN  /\ offset' = Offset(page.v, per_page)
                      /\ pc' = "done"
                      /\ IF airport_ids = <<>>
                         THEN /\ ret' = Return(<<>>, 0)
                              /\ qlog' = <<"airports">>
                         ELSE /\ ret' = CountAndPage(RoutesToFrom(DB, airport_ids),
                                                     offset', per_page)
                              /\ qlog' = <<"airports", "count routes", "routes">>
             ELSE RaiseAtOffset
    /\ OnlyResult

\* lines 167-195
get_direct_flights_between_cities ==
    /\ phase = "serving"
    /\ pc = "idle"
    /\ \E c1 \in CityArgs, c2 \in CityArgs, page \in Pages, per_page \in PerPages :
          /\ fn' = "get_direct_flights_between_cities"
          /\ args' = [city1 |-> c1[1], country1 |-> c1[2],
                      city2 |-> c2[1], country2 |-> c2[2],
                      page |-> page, per_page |-> per_page]
          /\ IF page.type = "int"
             THEN LET ids1 == Ids(FilterAirports(DB, c1[1], c1[2]))
                      ids2 == Ids(FilterAirports(DB, c2[1], c2[2]))
                  IN  /\ offset' = Offset(page.v, per_page)
                      /\ pc' = "done"
                      /\ IF ids1 = <<>> \/ ids2 = <<>>
                         THEN /\ ret' = Return(<<>>, 0)
                              /\ qlog' = <<"airports", "airports">>
                         ELSE /\ ret' = CountAndPage(DirectRoutesBetween(DB, ids1, ids2),
                                                     offset', per_page)
                              /\ qlog' = <<"airports", "airports", "count routes", "routes">>
             ELSE RaiseAtOffset
    /\ OnlyResult

\* the request is over (returned or raised); the next one starts with fresh locals
EndRequest ==
    /\ pc \in {"done", "raised"}
    /\ fn' = "none"
    /\ args' = <<>>
    /\ pc' = "idle"
    /\ offset' = 0
    /\ dep_ids' = <<>>
    /\ arr_ids' = <<>>
    /\ first_legs' = <<>>
    /\ via_ids' = <<>>
    /\ second_legs' = <<>>
    /\ results' = <<>>
    /\ ret' = NoReturn
    /\ qlog' = <<>>
    /\ UNCHANGED <<storeVars, phase, peer, sessionVars>>


Init ==
    /\ airports = LoadedAirports
    /\ airlines = LoadedAirlines
    /\ routes = <<>>
    /\ phase = "import"
    /\ fn = "none"
    /\ args = <<>>
    /\ pc = "idle"
    /\ offset = 0
    /\ dep_ids = <<>>
    /\ arr_ids = <<>>
    /\ first_legs = <<>>
    /\ via_ids = <<>>
    /\ second_legs = <<>>
    /\ results = <<>>
    /\ ret = NoReturn
    /\ qlog = <<>>
    /\ peer = NoPeer
    /\ requests = NoRequests
    /\ sessions = <<>>
    /\ script = NoScript

Next ==
    \/ LoadRoute
    \/ FinishImport
    \/ CallConnecting
    \/ ResolveDep
    \/ ResolveArr
    \/ FetchFirstLegs
    \/ FetchSecondLegs
    \/ JoinLoop
    \/ SliceAndReturn
    \/ get_airports_in_coords
    \/ get_airport_by_city_country
    \/ get_flights_to_from_city
    \/ get_direct_flights_between_cities
    \/ EndRequest

Spec == Init /\ [][Next]_vars

\* data_loader.py alone: the import of routes.dat
NextImport ==
    \/ LoadRoute
    \/ FinishImport

SpecImport == Init /\ [][NextImport]_vars

\* the import, then calls of get_connecting_flights
NextConnecting ==
    \/ LoadRoute
    \/ FinishImport
    \/ CallConnecting
    \/ ResolveDep
    \/ ResolveArr
    \/ FetchFirstLegs
    \/ FetchSecondLegs
    \/ JoinLoop
    \/ SliceAndReturn
    \/ EndRequest

SpecConnecting == Init /\ [][NextConnecting]_vars

\* the import, then calls of the three functions that query the routes table
\* by airport ids
NextRouteQueries ==
    \/ LoadRoute
    \/ FinishImport
    \/ CallConnecting
    \/ ResolveDep
    \/ ResolveArr
    \/ FetchFirstLegs
    \/ FetchSecondLegs
    \/ JoinLoop
    \/ SliceAndReturn
    \/ get_flights_to_from_city
    \/ get_direct_flights_between_cities
    \/ EndRequest

SpecRouteQueries == Init /\ [][NextRouteQueries]_vars

(***************************************************************************)
(* Properties of get_connecting_flights.                                   *)
(***************************************************************************)
Connecting == fn = "get_connecting_flights"

\* the function has returned
Returned == pc = "done" /\ ret.returned

\* the airports a (city, country) pair of the arguments selects
OriginSet == Range(Ids(FilterAirports(DB, args.city1, args.country1)))

DestSet == Range(Ids(FilterAirports(DB, args.city2, args.country2)))

\* the route rows an itinerary was built from
Leg1(it) == routes[it.leg1]

Leg2(it) == routes[it.leg2]

\* C1: every returned itinerary is built from a first leg and a second leg
\* with first.dest_id = second.source_id, first.source_id in the origin set,
\* second.dest_id in the destination set, and both legs direct (stops = 0).
C1_ItineraryLegs ==
    (Connecting /\ Returned) =>
        \A origin \in {OriginSet}, dest \in {DestSet}, k \in 1..Len(ret.items) :
            LET first == Leg1(ret.items[k])
                second == Leg2(ret.items[k])
            IN  /\ first.dest_id = second.source_id
                /\ first.source_id \in origin
                /\ second.dest_id \in dest
                /\ first.stops = 0
                /\ second.stops = 0

\* an itinerary was returned although a route with stops from the origin set
\* and one into the destination set are in the table
C1_Witness ==
    /\ Connecting /\ Returned
    /\ ret.items # <<>>
    /\ \E i \in 1..Len(routes) : routes[i].stops > 0 /\ routes[i].source_id \in OriginSet
    /\ \E i \in 1..Len(routes) : routes[i].dest_id \notin DestSet

\* the self-join of the route table: pairs of direct routes that connect the
\* origin set to the destination set through a common airport
SelfJoin(origin, dest) ==
    {p \in (1..Len(routes)) \X (1..Len(routes)) :
        /\ routes[p[1]].stops = 0
        /\ routes[p[2]].stops = 0
        /\ routes[p[1]].source_id \in origin
        /\ routes[p[2]].dest_id \in dest
        /\ routes[p[1]].dest_id = routes[p[2]].source_id}

\* C2: the returned total is the number of pairs of the self-join of the
\* route table, whatever page and per_page are.
C2_TotalIsSelfJoin ==
    (Connecting /\ Returned) =>
        \A origin \in {OriginSet}, dest \in {DestSet} :
            ret.total = Cardinality(SelfJoin(origin, dest))

\* three itineraries through three different via airports, on a page that
\* holds none of them
C2_Witness ==
    /\ Connecting /\ Returned
    /\ ret.total = 3
    /\ Cardinality(ViaSet(first_legs)) = 3
    /\ Cardinality({routes[p[1]].dest_id : p \in SelfJoin(OriginSet, DestSet)}) = 3
    /\ ret.items = <<>>

\* the emitted itineraries that change planes at airport x
Through(x) == {k \in 1..Len(results) : Leg1(results[k]).dest_id = x}

\* the direct routes from the origin set into x
LegsInto(origin, x) ==
    {i \in 1..Len(routes) : /\ routes[i].stops = 0
                            /\ routes[i].source_id \in origin
                            /\ routes[i].dest_id = x}

\* the direct routes from x into the destination set
LegsOutOf(x, dest) ==
    {i \in 1..Len(routes) : /\ routes[i].stops = 0
                            /\ routes[i].source_id = x
                            /\ routes[i].dest_id \in dest}

AirportIds == Range(Ids(airports))

\* C3: itineraries are not deduplicated: through every via airport x the
\* number of emitted itineraries is (first legs into x) times (second legs
\* out of x), and the total counts them all.
C3_NoDedup ==
    (Connecting /\ Returned) =>
        /\ \A origin \in {OriginSet}, dest \in {DestSet}, x \in AirportIds :
              Cardinality(Through(x)) =
                  Cardinality(LegsInto(origin, x)) * Cardinality(LegsOutOf(x, dest))
        /\ ret.total = Len(results)

\* two first legs Berlin -> Dubai of different airlines and one second leg
\* Dubai -> Singapore: two itineraries that differ only in the airline
C3_Witness ==
    /\ Connecting /\ Returned
    /\ \E x \in AirportIds :
          /\ Cardinality(LegsInto(OriginSet, x)) = 2
          /\ Cardinality(LegsOutOf(x, DestSet)) = 1
          /\ Cardinality(Through(x)) = 2
    /\ Len(results) = 2
    /\ results[1].airline1 # results[2].airline1
    /\ results[1].from1 = results[2].from1
    /\ results[1].via = results[2].via
    /\ results[1].to = results[2].to

\* C4: with an empty origin or destination airport set the function returns
\* ([], 0) and issues no query after the two airport resolutions.
C4_EmptySetShortCircuit ==
    (Connecting /\ pc \in {"first", "second", "join", "slice", "done"}
                /\ (dep_ids = <<>> \/ arr_ids = <<>>)) =>
        /\ pc = "done"
        /\ ret = Return(<<>>, 0)
        /\ qlog = <<"airports", "airports">>

\* the origin resolves, the destination does not, and routes leave the origin
C4_Witness ==
    /\ Connecting /\ Returned
    /\ dep_ids # <<>>
    /\ arr_ids = <<>>
    /\ FirstLegs(DB, dep_ids) # <<>>
    /\ ret = Return(<<>>, 0)

\* C5: with non-empty airport sets and no direct route out of the origin set
\* the function returns ([], 0) without the second-leg query.
C5_NoFirstLegs ==
    (/\ Connecting /\ pc \in {"second", "join", "slice", "done"}
     /\ dep_ids # <<>> /\ arr_ids # <<>>
     /\ ~ \E i \in 1..Len(routes) :
            routes[i].stops = 0 /\ routes[i].source_id \in Range(dep_ids)) =>
        /\ pc = "done"
        /\ ret = Return(<<>>, 0)
        /\ qlog = <<"airports", "airports", "routes">>

\* the only route out of the origin set has a stop
C5_Witness ==
    /\ Connecting /\ Returned
    /\ dep_ids # <<>> /\ arr_ids # <<>>
    /\ \E i \in 1..Len(routes) : routes[i].source_id \in Range(dep_ids)
    /\ first_legs = <<>>
    /\ qlog = <<"airports", "airports", "routes">>

\* the itinerary list of the current arguments
FullConnecting ==
    ConnectingResults(DB, args.city1, args.country1, args.city2, args.country2)

\* results[offset:offset + per_page] for page p
PageOf(full, p, per_page) ==
    PySlice(full, Offset(p, per_page), Offset(p, per_page) + per_page)

RECURSIVE ConcatPages(_, _, _)
\* pages 1..p of full, one after the other
ConcatPages(full, per_page, p) ==
    IF p = 0 THEN <<>>
    ELSE ConcatPages(full, per_page, p - 1) \o PageOf(full, p, per_page)

\* ceil(total / per_page)
NumPages(total, per_page) == (total + per_page - 1) \div per_page

\* C6: pagination is exhaustive and non-overlapping: for per_page >= 1 the
\* pages 1..ceil(total/per_page), concatenated, are the full itinerary list,
\* and a page is the same items at every call (it does not depend on the
\* order in which the via airports were listed).
C6_PagesPartition ==
    (Connecting /\ Returned) =>
        \A full \in {FullConnecting} :
            /\ ret.items = PageOf(full, args.page.v, args.per_page)
            /\ ret.total = Len(full)
            /\ \A per_page \in 1..MaxPerPage :
                  ConcatPages(full, per_page, NumPages(Len(full), per_page)) = full

\* the second of two pages of one itinerary each
C6_Witness ==
    /\ Connecting /\ Returned
    /\ args.page.v = 2 /\ args.per_page = 1
    /\ ret.total = 2
    /\ ret.items = <<results[2]>>
    /\ results[1] # results[2]

\* the full result of the current call, before pagination
FullResult ==
    CASE fn = "get_airports_in_coords" ->
            AirportsInCoords(DB, args.lat_min, args.lat_max, args.lon_min, args.lon_max)
      [] fn = "get_airport_by_city_country" ->
            FilterAirports(DB, args.city, args.country)
      [] fn = "get_flights_to_from_city" ->
            RoutesToFrom(DB, Ids(FilterAirports(DB, args.city, args.country)))
      [] fn = "get_direct_flights_between_cities" ->
            DirectRoutesBetween(DB, Ids(FilterAirports(DB, args.city1, args.country1)),
                                    Ids(FilterAirports(DB, args.city2, args.country2)))
      [] fn = "get_connecting_flights" -> FullConnecting

\* C7: for page >= 1 and per_page >= 1 each of the five functions returns
\* the items of the full result from offset (page-1)*per_page on, as many as
\* min(per_page, max(0, total - offset)), and total = the size of the full
\* result; past the last page that is no item and the same total.
C7_PageContract ==
    (Returned /\ args.page.v >= 1 /\ args.per_page >= 1) =>
        \A full \in {FullResult} :
            LET off == (args.page.v - 1) * args.per_page
                total == Len(full)
                n == Min2(args.per_page, Max2(0, total - off))
            IN  /\ ret.total = total
                /\ ret.items = [i \in 1..n |-> full[off + i]]

\* a page in the middle of a result paginated by the store
C7_Witness ==
    /\ Returned
    /\ fn = "get_flights_to_from_city"
    /\ args.page.v = 2 /\ args.per_page = 1
    /\ ret.total = 3
    /\ ret.items = <<routes[2]>>

\* a code is present when it is neither None nor empty
Present(code) == code # None /\ code # ""

ExpectedCode(airport) ==
    IF Present(airport.iata) THEN airport.iata
    ELSE IF Present(airport.icao) THEN airport.icao
    ELSE "N/A"

\* the row of table airports with the id
AirportRow(id) == CHOOSE a \in Range(airports) : a.id = id

\* C8: the display code of the origin, via and destination airport is the
\* IATA code when present, else the ICAO code when present, else "N/A"; the
\* via code and via city are those of the airport with id first.dest_id.
C8_DisplayCodes ==
    (Connecting /\ pc \in {"slice", "done"}) =>
        \A k \in 1..Len(results) :
            LET it == results[k]
            IN  /\ it.from1 = ExpectedCode(AirportRow(Leg1(it).source_id))
                /\ it.via = ExpectedCode(AirportRow(Leg1(it).dest_id))
                /\ it.via_city = AirportRow(Leg1(it).dest_id).city
                /\ it.to = ExpectedCode(AirportRow(Leg2(it).dest_id))

\* Berlin (IATA) -> Dubai (ICAO only) -> Singapore (no code)
C8_Witness ==
    /\ Connecting /\ Returned
    /\ \E k \in 1..Len(ret.items) :
          /\ ret.items[k].from1 = "TXL"
          /\ ret.items[k].via = "OMDB"
          /\ ret.items[k].via_city = Dubai
          /\ ret.items[k].to = "N/A"

\* C9 as stated: a leg whose airline foreign key is null shows "Unknown".
C9_NullAirlineIdIsUnknown ==
    (Connecting /\ pc \in {"slice", "done"}) =>
        \A k \in 1..Len(results) :
            /\ Leg1(results[k]).airline_id = NoneId => results[k].airline1 = "Unknown"
            /\ Leg2(results[k]).airline_id = NoneId => results[k].airline2 = "Unknown"

ExpectedAirline(leg) == IF Present(leg.airline_code) THEN leg.airline_code ELSE "Unknown"

\* C9, amended: the airline field of a leg is the leg's airline code string,
\* and "Unknown" when that string is None or empty; the airline foreign key
\* plays no part.
C9_EmptyAirlineCodeIsUnknown ==
    (Connecting /\ pc \in {"slice", "done"}) =>
        \A k \in 1..Len(results) :
            /\ results[k].airline1 = ExpectedAirline(Leg1(results[k]))
            /\ results[k].airline2 = ExpectedAirline(Leg2(results[k]))

\* a first leg with an unresolved airline shown by its code, a second leg
\* with an empty code shown as "Unknown"
C9_Witness ==
    /\ Connecting /\ Returned
    /\ \E k \in 1..Len(ret.items) :
          /\ Leg1(ret.items[k]).airline_id = NoneId
          /\ ret.items[k].airline1 = "ZZ"
          /\ Leg2(ret.items[k]).airline_code = ""
          /\ ret.items[k].airline2 = "Unknown"

\* C10 as stated: get_connecting_flights never raises.
C10_NeverRaises == Connecting => pc # "raised"

\* C10, amended: with an integer page (below 1 included) and an integer
\* per_page (zero and negative included) the function does not raise and
\* returns a list and a non-negative integer total; a page that is not a
\* number raises at the offset computation, before any query.
C10_RaisesOnlyOnNonNumericPage ==
    Connecting =>
        /\ pc = "raised" => (args.page.type # "int" /\ qlog = <<>>)
        /\ args.page.type # "int" => pc = "raised"
        /\ pc = "done" => /\ ret.returned
                          /\ ret.total \in Nat
                          /\ Len(ret.items) <= ret.total

\* empty strings, a page below 1 and a per_page that is not positive,
\* itineraries found
C10_Witness ==
    /\ Connecting /\ Returned
    /\ args.city1 = <<>> /\ args.country1 = <<>>
    /\ args.page.v < 1
    /\ args.per_page <= 0
    /\ ret.total > 0

(***************************************************************************)
(* Airport resolution on arbitrary search strings.  The store is the one   *)
(* the import leaves; the caller passes any string, the LIKE wildcards     *)
(* included, and the page and per_page defaults.                           *)
(***************************************************************************)
\* longest search string tried
MaxSearchLen == 2

\* a letter in either case, a letter no city or country has, the wildcards
SearchChars == {"b", "E", "z", "%", "_"}

SearchStrings == UNION {[1..n -> SearchChars] : n \in 0..MaxSearchLen}

\* per_page: int = 25
DefaultPerPage == 25

\* the store after data_loader.py has run over three lines of routes.dat
ImportedRoutes ==
    << Route(1, "SU", 1, "TXL", 1, "OMDB", 2, 0),
       Route(2, "", NoneId, "OMDB", 2, "", 3, 0),
       Route(3, "SU", 1, "", 3, "TXL", 1, 0) >>

InitServing ==
    /\ airports = LoadedAirports
    /\ airlines = LoadedAirlines
    /\ routes = ImportedRoutes
    /\ phase = "serving"
    /\ fn = "none"
    /\ args = <<>>
    /\ pc = "idle"
    /\ offset = 0
    /\ dep_ids = <<>>
    /\ arr_ids = <<>>
    /\ first_legs = <<>>
    /\ via_ids = <<>>
    /\ second_legs = <<>>
    /\ results = <<>>
    /\ ret = NoReturn
    /\ qlog = <<>>
    /\ peer = NoPeer
    /\ requests = NoRequests
    /\ sessions = <<>>
    /\ script = NoScript

\* get_airport_by_city_country(db, city, country) with any two strings
SearchAnyStrings ==
    /\ pc = "idle"
    /\ \E city \in SearchStrings, country \in SearchStrings :
          AirportByCityCountry(city, country, PyInt(1), DefaultPerPage)

NextSearch ==
    \/ SearchAnyStrings
    \/ EndRequest

SpecSearch == InitServing /\ [][NextSearch]_vars

\* t occurs in s at position i, letter case ignored
OccursAt(s, t, i) == \A k \in 1..Len(t) : Lower(s[i + k - 1]) = Lower(t[k])

\* t is a substring of s, letter case ignored
Contains(s, t) == \E i \in 1..(Len(s) - Len(t) + 1) : OccursAt(s, t, i)

\* the airports whose city contains city and whose country contains country
SubstringMatches(city, country) ==
    {i \in 1..Len(airports) : /\ Contains(airports[i].city, city)
                              /\ Contains(airports[i].country, country)}

\* C11 as stated: for every search string, the wildcards included, the
\* airports selected are exactly those whose city contains the city string
\* and whose country contains the country string, letter case ignored.
C11_ExactSubstring ==
    (fn = "get_airport_by_city_country" /\ Returned) =>
        /\ ret.total = Cardinality(SubstringMatches(args.city, args.country))
        /\ args.page.v = 1 /\ args.per_page >= ret.total =>
              ret.items = SelectIdx(airports, SubstringMatches(args.city, args.country), 1)

(***************************************************************************)
(* Determinism of get_connecting_flights.                                  *)
(***************************************************************************)
\* C12: whatever order list(set(...)) gives the via airports, the second
\* legs fetched are the same rows in the same order, and the result list
\* and the value returned are built from them, the first legs, the store
\* and the arguments alone.
C12_ViaOrderIrrelevant ==
    (Connecting /\ pc \in {"join", "slice", "done"} /\ Len(qlog) >= 4) =>
        /\ \A p \in Perms(ViaSet(first_legs)) : second_legs = SecondLegs(DB, p, arr_ids)
        /\ pc \in {"slice", "done"} =>
              results = BuildResults(DB, JoinPairs(first_legs, second_legs))
        /\ pc = "done" =>
              ret = Return(PySlice(results, Offset(args.page.v, args.per_page),
                                   Offset(args.page.v, args.per_page) + args.per_page),
                           Len(results))

\* the via airports came out of the set in an order that is not the order
\* of the store, and the page returned holds itineraries through two of them
C12_Witness ==
    /\ Connecting /\ Returned
    /\ Len(via_ids) >= 2
    /\ via_ids[1] > via_ids[2]
    /\ Len(ret.items) >= 2
    /\ ret.items[1].via # ret.items[2].via

(***************************************************************************)
(* The query path: the five search functions and the two unique-value      *)
(* functions, called in any order on the store the import left.            *)
(***************************************************************************)
\* SELECT DISTINCT over one column: each value once, at its first row
Distinct(col) == SelectIdx(col, {i \in 1..Len(col) : \A j \in 1..(i - 1) : col[j] # col[i]}, 1)

\* a function that returns a list alone
ReturnList(items) == [returned |-> TRUE, items |-> items]

\* crud.py line 214
get_unique_cities ==
    /\ phase = "serving"
    /\ pc = "idle"
    /\ fn' = "get_unique_cities"
    /\ args' = <<>>
    /\ ret' = ReturnList(Distinct([i \in 1..Len(airports) |-> airports[i].city]))
    /\ qlog' = <<"airports">>
    /\ pc' = "done"
    /\ offset' = offset
    /\ OnlyResult

\* crud.py line 233
get_unique_countries ==
    /\ phase = "serving"
    /\ pc = "idle"
    /\ fn' = "get_unique_countries"
    /\ args' = <<>>
    /\ ret' = ReturnList(Distinct([i \in 1..Len(airports) |-> airports[i].country]))
    /\ qlog' = <<"airports">>
    /\ pc' = "done"
    /\ offset' = offset
    /\ OnlyResult

NextServing ==
    \/ CallConnecting
    \/ ResolveDep
    \/ ResolveArr
    \/ FetchFirstLegs
    \/ FetchSecondLegs
    \/ JoinLoop
    \/ SliceAndReturn
    \/ get_airports_in_coords
    \/ get_airport_by_city_country
    \/ get_flights_to_from_city
    \/ get_direct_flights_between_cities
    \/ get_unique_cities
    \/ get_unique_countries
    \/ EndRequest

SpecServing == InitServing /\ [][NextServing]_vars

\* C13: no step of the query path changes the Airport, Airline or Route
\* rows: after any sequence of calls the store is the one the import left.
C13_StoreUnchanged ==
    [][phase = "serving" =>
          (airports' = airports /\ airlines' = airlines /\ routes' = routes)]_vars

\* calls of both kinds have been made and the store is as imported
C13_Witness ==
    /\ phase = "serving"
    /\ fn = "get_unique_countries" /\ pc = "done"
    /\ ret.items = <<Germany, Emirates, Singapore>>
    /\ airports = LoadedAirports
    /\ airlines = LoadedAirlines
    /\ routes = ImportedRoutes

(***************************************************************************)
(* Two searches at once.  The handlers are plain functions, which the      *)
(* server runs on worker threads; get_db gives each request a session of   *)
(* its own, and the variables of get_connecting_flights are locals of the  *)
(* call.  The second call is the record peer; its steps are the same       *)
(* statements as the actions of the first.                                 *)
(***************************************************************************)
\* the second request arrives, from some city to anywhere:
\* offset = (page - 1) * per_page
PeerCall ==
    /\ phase = "serving"
    /\ peer.pc = "idle"
    /\ \E c1 \in CityArgs :
          peer' = [NoPeer EXCEPT
                      !.args = [city1 |-> c1[1], country1 |-> c1[2],
                                city2 |-> <<>>, country2 |-> <<>>,
                                page |-> PyInt(1), per_page |-> DefaultPerPage],
                      !.offset = Offset(1, DefaultPerPage),
                      !.pc = "dep"]
    /\ UNCHANGED <<storeVars, phase, reqVars, sessionVars>>

\* the next statement of a call whose locals are r: lines 295-364
PeerNext(r) ==
    CASE r.pc = "dep" ->
            {[r EXCEPT !.dep_ids = Ids(FilterAirports(DB, r.args.city1, r.args.country1)),
                       !.pc = "arr"]}
      [] r.pc = "arr" ->
            LET ids == Ids(FilterAirports(DB, r.args.city2, r.args.country2))
            IN  IF NoAirports(r.dep_ids, ids)
                THEN {[r EXCEPT !.arr_ids = ids, !.ret = Return(<<>>, 0), !.pc = "done"]}
                ELSE {[r EXCEPT !.arr_ids = ids, !.pc = "first"]}
      [] r.pc = "first" ->
            LET legs == FirstLegs(DB, r.dep_ids)
            IN  IF NoFirstLegs(legs)
                THEN {[r EXCEPT !.first_legs = legs, !.ret = Return(<<>>, 0),
                                !.pc = "done"]}
                ELSE {[r EXCEPT !.first_legs = legs, !.via_ids = p, !.pc = "second"] :
                         p \in Perms(ViaSet(legs))}
      [] r.pc = "second" ->
            {[r EXCEPT !.second_legs = SecondLegs(DB, r.via_ids, r.arr_ids),
                       !.pc = "join"]}
      [] r.pc = "join" ->
            LET pairs == JoinPairs(r.first_legs, r.second_legs)
            IN  IF \E k \in 1..Len(pairs) : LookupFails(DB, pairs[k])
                THEN {[r EXCEPT !.pc = "raised"]}
                ELSE {[r EXCEPT !.results = BuildResults(DB, pairs), !.pc = "slice"]}
      [] r.pc = "slice" ->
            {[r EXCEPT !.ret = Return(PySlice(r.results, r.offset,
                                              r.offset + r.args.per_page),
                                      Len(r.results)),
                       !.pc = "done"]}

\* PeerStep of a function that keeps its result list in a module-level
\* variable, the same list for every call
PeerStep_SharedResults ==
    /\ peer.pc \in {"dep", "arr", "first", "second", "join", "slice"}
    /\ peer' \in PeerNext(peer)
    /\ results' = peer'.results
    /\ UNCHANGED <<storeVars, phase, fn, args, pc, offset, dep_ids, arr_ids,
                   first_legs, via_ids, second_legs, ret, qlog, sessionVars>>

\* the second request runs one statement
PeerStep ==
    /\ peer.pc \in {"dep", "arr", "first", "second", "join", "slice"}
    /\ peer' \in PeerNext(peer)
    /\ UNCHANGED <<storeVars, phase, reqVars, sessionVars>>

NextConcurrent ==
    \/ CallConnecting
    \/ ResolveDep
    \/ ResolveArr
    \/ FetchFirstLegs
    \/ FetchSecondLegs
    \/ JoinLoop
    \/ SliceAndReturn
    \/ PeerCall
    \/ PeerStep

SpecConcurrent == InitServing /\ [][NextConcurrent]_vars

\* what get_connecting_flights returns for the arguments a when it runs alone
Alone(a) ==
    LET full == ConnectingResults(DB, a.city1, a.country1, a.city2, a.country2)
        off == Offset(a.page.v, a.per_page)
    IN  Return(PySlice(full, off, off + a.per_page), Len(full))

\* C14: however the statements of two searches interleave, each search
\* returns what it returns when it runs alone on the same store.
C14_NoInterference ==
    /\ (Connecting /\ Returned) => ret = Alone(args)
    /\ peer.pc = "done" => peer.ret = Alone(peer.args)

\* one search has returned itineraries while the other, with other
\* arguments, is between its join and its slice
C14_Witness ==
    /\ Connecting /\ Returned
    /\ ret.total > 0
    /\ peer.pc = "slice"
    /\ peer.results # results

(***************************************************************************)
(* The routes table after the import.                                      *)
(***************************************************************************)
\* some airport row has this id
AirportExists(id) == \E a \in 1..Len(airports) : airports[a].id = id

\* C15: after the import every route row points at existing airport rows;
\* a line whose source or destination code matches no airport has no row;
\* a row whose airline code matches no airline has a null airline_id.
C15_RoutesResolve ==
    phase = "serving" =>
        /\ \A i \in 1..Len(routes) :
              /\ AirportExists(routes[i].source_id)
              /\ AirportExists(routes[i].dest_id)
              /\ FirstByCode(airlines, routes[i].airline_code) = NoRow =>
                    routes[i].airline_id = NoneId
              /\ FirstByCode(airlines, routes[i].airline_code) # NoRow =>
                    routes[i].airline_id = FirstByCode(airlines, routes[i].airline_code).id
        /\ \A row \in RouteLines :
              (FirstByCode(airports, row.src) = NoRow \/ FirstByCode(airports, row.dst) = NoRow)
                  => \A i \in 1..Len(routes) : ~ FromLine(routes[i], row)

\* the import is over and kept a route of an unknown airline, next to one
\* whose airline resolved
C15_Witness ==
    /\ phase = "serving"
    /\ \E i, j \in 1..Len(routes) :
          /\ routes[i].airline_code = "ZZ" /\ routes[i].airline_id = NoneId
          /\ routes[i].source_id = 1 /\ routes[i].dest_id = 2
          /\ routes[j].airline_code = "SU" /\ routes[j].airline_id = 1

(***************************************************************************)
(* get_connecting_flights with a page below 1.                             *)
(***************************************************************************)
\* the items of full from position lo to position hi, both counted back
\* from the end and stopped at the start of the list
FromEnd(full, lo, hi) ==
    SubSeq(full, Max2(0, Len(full) + lo) + 1, Max2(0, Len(full) + hi))

\* C16 as stated: with page 0 or a negative page (and per_page >= 1) the
\* items are taken counting from the end of the full list, and total is
\* the full count.
C16_WrapsFromEnd ==
    (Connecting /\ Returned /\ args.page.v <= 0 /\ args.per_page >= 1) =>
        \A full \in {results} :
            LET off == (args.page.v - 1) * args.per_page
            IN  /\ ret.total = Len(full)
                /\ ret.items = FromEnd(full, off, off + args.per_page)

\* C16, amended: with a negative page (and per_page >= 1) both ends of the
\* slice are negative and the items are taken counting from the end of the
\* full list; with page 0 the slice is results[-per_page:0], which is empty
\* whatever the list holds; in both cases nothing is raised and total is
\* the full count.
C16_WrapsOnlyBelowZero ==
    (Connecting /\ Returned /\ args.page.v <= 0 /\ args.per_page >= 1) =>
        \A full \in {results} :
            LET off == (args.page.v - 1) * args.per_page
            IN  /\ ret.total = Len(full)
                /\ args.page.v = 0 => ret.items = <<>>
                /\ args.page.v < 0 =>
                      ret.items = FromEnd(full, off, off + args.per_page)

\* page -1 of a list of three with one item a page: the slice is
\* results[-2:-1], the second item
C16_Witness ==
    /\ Connecting /\ Returned
    /\ args.page.v = -1 /\ args.per_page = 1
    /\ ret.total = 3
    /\ ret.items = <<results[2]>>

(***************************************************************************)
(* main.py: the handlers that render a page of results.  Each calls its    *)
(* query function with the page of the request and the default per_page,   *)
(* and computes the number of pages from total.  The rows the query        *)
(* selects are numbered 1..n here; only their count matters.               *)
(***************************************************************************)
\* most rows a query selects
MaxTotal == 51

\* the handlers whose query paginates in the store
StoreHandlers == {"coord_search", "city_search", "flights_city", "direct_flights"}

\* PageCount that rounds down
PageCount_RoundDown(total) == total \div 25

\* pages = (total + 24) // 25
PageCount(total) == (total + 24) \div 25

\* what the template receives
Rendered(page, r) ==
    [returned |-> TRUE, items |-> r.items, total |-> r.total, page |-> page,
     pages |-> PageCount(r.total)]

\* coord_search, city_search, flights_city, direct_flights on a query that
\* selects n rows
RenderFromStore ==
    /\ phase = "serving"
    /\ pc = "idle"
    /\ \E h \in StoreHandlers, n \in 0..MaxTotal, page \in (1 - PagesBelowOne)..MaxPage :
          /\ fn' = h
          /\ args' = [rows |-> n, page |-> PyInt(page), per_page |-> DefaultPerPage]
          /\ offset' = Offset(page, DefaultPerPage)
          /\ ret' = Rendered(page, CountAndPage([i \in 1..n |-> i], offset', DefaultPerPage))
          /\ qlog' = <<>>
          /\ pc' = "done"
    /\ OnlyResult

\* connecting_flights on a search that finds n itineraries
RenderFromMemory ==
    /\ phase = "serving"
    /\ pc = "idle"
    /\ \E n \in 0..MaxTotal, page \in (1 - PagesBelowOne)..MaxPage :
          /\ fn' = "connecting_flights"
          /\ args' = [rows |-> n, page |-> PyInt(page), per_page |-> DefaultPerPage]
          /\ offset' = Offset(page, DefaultPerPage)
          /\ results' = [i \in 1..n |-> i]
          /\ ret' = Rendered(page, Return(PySlice(results', offset',
                                                  offset' + DefaultPerPage), n))
          /\ qlog' = <<>>
          /\ pc' = "done"
    /\ UNCHANGED <<storeVars, phase, peer, sessionVars, dep_ids, arr_ids, first_legs, via_ids,
                   second_legs>>

NextPages ==
    \/ RenderFromStore
    \/ RenderFromMemory
    \/ EndRequest

SpecPages == InitServing /\ [][NextPages]_vars

\* a handler has rendered a page
Shown == pc = "done" /\ fn \in StoreHandlers \cup {"connecting_flights"}

\* C17 as stated: pages is ceil(total / 25), it is 0 exactly when total is
\* 0, and page p holds items exactly when 1 <= p <= pages.
C17_NonEmptyIffWithinPages ==
    Shown =>
        /\ 25 * ret.pages >= ret.total /\ 25 * (ret.pages - 1) < ret.total
        /\ ret.pages = 0 <=> ret.total = 0
        /\ ret.items # <<>> <=> (1 <= ret.page /\ ret.page <= ret.pages)

\* C17, amended: the same for the pages p >= 1; a page below 1 is outside
\* the statement (it may hold items).
C17_NonEmptyIffWithinPagesFromOne ==
    Shown =>
        /\ 25 * ret.pages >= ret.total /\ 25 * (ret.pages - 1) < ret.total
        /\ ret.pages = 0 <=> ret.total = 0
        /\ ret.page >= 1 =>
              (ret.items # <<>> <=> (1 <= ret.page /\ ret.page <= ret.pages))

\* 26 rows make two pages: the second page holds the one row left
C17_Witness ==
    /\ Shown
    /\ ret.total = 26 /\ ret.pages = 2 /\ ret.page = 2
    /\ Len(ret.items) = 1

(***************************************************************************)
(* get_connecting_flights on a store with a route that points at no        *)
(* airport.  The import leaves no such route; SQLite does not enforce the  *)
(* foreign keys of routes (database.py sets no pragma), so the database    *)
(* file keeps the routes of an airport row that was deleted from it after  *)
(* the import, and the application serves that file.                       *)
(***************************************************************************)
\* the airports table without the row of one airport
WithoutAirport(id) ==
    SelectIdx(LoadedAirports, {i \in 1..Len(LoadedAirports) : LoadedAirports[i].id # id}, 1)

InitDangling ==
    /\ airports \in {WithoutAirport(id) : id \in 1..Len(LoadedAirports)}
    /\ airlines = LoadedAirlines
    /\ routes = ImportedRoutes
    /\ phase = "serving"
    /\ fn = "none"
    /\ args = <<>>
    /\ pc = "idle"
    /\ offset = 0
    /\ dep_ids = <<>>
    /\ arr_ids = <<>>
    /\ first_legs = <<>>
    /\ via_ids = <<>>
    /\ second_legs = <<>>
    /\ results = <<>>
    /\ ret = NoReturn
    /\ qlog = <<>>
    /\ peer = NoPeer
    /\ requests = NoRequests
    /\ sessions = <<>>
    /\ script = NoScript

NextDangling ==
    \/ CallConnecting
    \/ ResolveDep
    \/ ResolveArr
    \/ FetchFirstLegs
    \/ FetchSecondLegs
    \/ JoinLoop
    \/ SliceAndReturn
    \/ EndRequest

SpecDangling == InitDangling /\ [][NextDangling]_vars

\* the loop has met a first and a second leg that join and of which the
\* source, the via or the destination airport has no row
MetMissingAirport ==
    \E i \in 1..Len(first_legs), j \in 1..Len(second_legs) :
        /\ first_legs[i].dest_id = second_legs[j].source_id
        /\ \/ ~ AirportExists(first_legs[i].source_id)
           \/ ~ AirportExists(first_legs[i].dest_id)
           \/ ~ AirportExists(second_legs[j].dest_id)

\* C18: once the loop has met an itinerary with an airport id that has no
\* row, the call has raised: it returns nothing, neither the list without
\* that itinerary nor the part built so far.
C18_AbortsOnMissingAirport ==
    (Connecting /\ pc \in {"slice", "done", "raised"} /\ MetMissingAirport) =>
        /\ pc = "raised"
        /\ ret = NoReturn

\* the via airport of a joined pair has no row: the call raised inside the
\* loop, after the four queries
C18_Witness ==
    /\ Connecting
    /\ pc = "raised"
    /\ Len(qlog) > 4
    /\ \E i \in 1..Len(first_legs) : ~ AirportExists(first_legs[i].dest_id)
    /\ ret = NoReturn

(***************************************************************************)
(* Route queries and empty airport-id lists.                               *)
(***************************************************************************)
\* the session has queried the routes table for this request
QueriedRoutes == \E k \in 1..Len(qlog) : qlog[k] \in {"routes", "count routes"}

\* C19: a query on routes is issued only with non-empty id lists: the
\* first-leg query (the third query of get_connecting_flights) with origin
\* and destination ids, the second-leg query (the fourth) with via and
\* destination ids; get_flights_to_from_city and
\* get_direct_flights_between_cities return ([], 0) without a query on
\* routes when an id list is empty.
C19_NoRouteQueryOnEmptySet ==
    /\ Connecting =>
          /\ Len(qlog) <= 2 => ~ QueriedRoutes
          /\ Len(qlog) >= 3 =>
                (qlog[3] = "routes" /\ dep_ids # <<>> /\ arr_ids # <<>>)
          /\ Len(qlog) >= 4 =>
                (qlog[4] = "routes" /\ via_ids # <<>> /\ arr_ids # <<>>)
    /\ (fn = "get_flights_to_from_city" /\ pc = "done") =>
          \A ids \in {Ids(FilterAirports(DB, args.city, args.country))} :
              /\ QueriedRoutes => ids # <<>>
              /\ ids = <<>> => ret = Return(<<>>, 0)
    /\ (fn = "get_direct_flights_between_cities" /\ pc = "done") =>
          \A ids1 \in {Ids(FilterAirports(DB, args.city1, args.country1))},
             ids2 \in {Ids(FilterAirports(DB, args.city2, args.country2))} :
              /\ QueriedRoutes => (ids1 # <<>> /\ ids2 # <<>>)
              /\ (ids1 = <<>> \/ ids2 = <<>>) => ret = Return(<<>>, 0)

\* direct flights from a city with airports to a city without: the table
\* holds routes, and the two airport queries are all the function ran
C19_Witness ==
    /\ fn = "get_direct_flights_between_cities" /\ Returned
    /\ routes # <<>>
    /\ FilterAirports(DB, args.city1, args.country1) # <<>>
    /\ FilterAirports(DB, args.city2, args.country2) = <<>>
    /\ qlog = <<"airports", "airports">>
    /\ ret = Return(<<>>, 0)

(***************************************************************************)
(* Second legs and the total.                                              *)
(***************************************************************************)
\* no non-stop route leads from a via airport into the destination set
NoWayOn ==
    ~ \E k \in 1..Len(routes) :
          /\ \E i \in 1..Len(first_legs) : first_legs[i].dest_id = routes[k].source_id
          /\ routes[k].dest_id \in Range(arr_ids)
          /\ routes[k].stops = 0

\* C20: every second leg fetched starts where some first leg ends, so the
\* total is 0 exactly when no second leg was fetched; with first legs and
\* no non-stop route from a via airport into the destination set the
\* function returns ([], 0).
C20_SecondLegsAllJoin ==
    (Connecting /\ pc \in {"join", "slice", "done"}) =>
        /\ \A j \in 1..Len(second_legs) :
              \E i \in 1..Len(first_legs) :
                  first_legs[i].dest_id = second_legs[j].source_id
        /\ pc = "done" => (ret.total = 0 <=> second_legs = <<>>)
        /\ (pc = "done" /\ first_legs # <<>> /\ NoWayOn) => ret = Return(<<>>, 0)

\* first legs were found, the second-leg query ran and found nothing
C20_Witness ==
    /\ Connecting /\ Returned
    /\ first_legs # <<>>
    /\ Len(qlog) = 4
    /\ second_legs = <<>>
    /\ Len(routes) >= 2
    /\ ret = Return(<<>>, 0)

(***************************************************************************)
(* get_direct_flights_between_cities.                                      *)
(***************************************************************************)
Direct == fn = "get_direct_flights_between_cities"

\* the ids of the airports of the first and of the second city of the call
City1Ids == {airports[i].id : i \in {k \in 1..Len(airports) :
                /\ Contains(airports[k].city, args.city1)
                /\ Contains(airports[k].country, args.country1)}}

City2Ids == {airports[i].id : i \in {k \in 1..Len(airports) :
                /\ Contains(airports[k].city, args.city2)
                /\ Contains(airports[k].country, args.country2)}}

\* a non-stop route between the two sets, in one direction or the other
RunsBetween(r, a, b) ==
    /\ r.stops = 0
    /\ \/ r.source_id \in a /\ r.dest_id \in b
       \/ r.source_id \in b /\ r.dest_id \in a

\* what the function returns for the same page when the two cities change
\* places
SwappedCall ==
    LET ids1 == Ids(FilterAirports(DB, args.city2, args.country2))
        ids2 == Ids(FilterAirports(DB, args.city1, args.country1))
    IN  IF ids1 = <<>> \/ ids2 = <<>>
        THEN Return(<<>>, 0)
        ELSE CountAndPage(DirectRoutesBetween(DB, ids1, ids2),
                          Offset(args.page.v, args.per_page), args.per_page)

\* C21: every route returned is non-stop and runs between the airports of
\* the two cities in one direction or the other; total counts every such
\* route and the first page, when it is long enough, holds them all; the
\* call with the cities swapped returns the same routes and the same total.
C21_BothDirections ==
    (Direct /\ Returned) =>
        \A a \in {City1Ids}, b \in {City2Ids} :
            /\ \A k \in 1..Len(ret.items) :
                  /\ RunsBetween(ret.items[k], a, b)
                  /\ \E i \in 1..Len(routes) : routes[i] = ret.items[k]
            /\ ret.total = Cardinality({i \in 1..Len(routes) : RunsBetween(routes[i], a, b)})
            /\ (args.page.v = 1 /\ args.per_page >= ret.total) =>
                  Range(ret.items) = {routes[i] : i \in {k \in 1..Len(routes) :
                                                          RunsBetween(routes[k], a, b)}}
            /\ ret = SwappedCall

\* a route from the second city into the first is among the routes
\* returned, and a route with a stop between the two cities is not
C21_Witness ==
    /\ Direct /\ Returned
    /\ \E k \in 1..Len(ret.items) :
          /\ ret.items[k].source_id \notin City1Ids
          /\ ret.items[k].dest_id \in City1Ids
    /\ \E i \in 1..Len(routes) : routes[i].stops > 0
    /\ ret.total < Len(routes)

(***************************************************************************)
(* Routes with stops and the connecting-flight search.                     *)
(***************************************************************************)
\* the store without its routes that have a stop; the other rows keep
\* their ids and their order
NonStopOnly(db) ==
    [db EXCEPT !.routes = SelectIdx(db.routes,
                             {i \in 1..Len(db.routes) : db.routes[i].stops = 0}, 1)]

\* C22: the value returned is the value the same call returns on the store
\* without the routes that have a stop; two stores that differ in such
\* routes only therefore give the same items and the same total.
C22_StopsDoNotInfluence ==
    (Connecting /\ Returned) =>
        \A full \in {ConnectingResults(NonStopOnly(DB), args.city1, args.country1,
                                       args.city2, args.country2)} :
            ret = Return(PySlice(full, Offset(args.page.v, args.per_page),
                                 Offset(args.page.v, args.per_page) + args.per_page),
                         Len(full))

\* an itinerary was found, and the table holds a route with a stop that
\* leaves a via airport of the search for a destination airport
C22_Witness ==
    /\ Connecting /\ Returned
    /\ ret.total > 0
    /\ \E i \in 1..Len(routes) :
          /\ routes[i].stops > 0
          /\ routes[i].source_id \in Range(via_ids)
          /\ routes[i].dest_id \in Range(arr_ids)

(***************************************************************************)
(* The session dependency: one session per request, closed by get_db.      *)
(***************************************************************************)
\* SessionLocal(): a new session, open, given to the request that asked
Session(owner) == [owner |-> owner, open |-> TRUE, users |-> {}]

\* the finally clause of a generator that stopped at its yield runs only
\* when the handler returned
ClosesOn_ReturnOnly(outcome) == outcome = "returned"

\* the finally clause of get_db runs whether the handler returned or raised
ClosesOn(outcome) == outcome \in {"returned", "raised"}

\* get_db up to its yield: the request gets the session made for it
Arrive(r) ==
    /\ requests[r].st = "new"
    /\ sessions' = Append(sessions, Session(r))
    /\ requests' = [requests EXCEPT ![r].st = "handling",
                                    ![r].db = Len(sessions) + 1]
    /\ UNCHANGED <<storeVars, phase, reqVars, peer, script>>

\* the handler passes its db to a function of crud, which queries through it
Query(r) ==
    /\ requests[r].st = "handling"
    /\ sessions[requests[r].db].open
    /\ sessions' = [sessions EXCEPT ![requests[r].db].users = @ \cup {r}]
    /\ requests' = [requests EXCEPT ![r].queried = TRUE]
    /\ UNCHANGED <<storeVars, phase, reqVars, peer, script>>

\* the handler returns its template response
HandlerReturns(r) ==
    /\ requests[r].st = "handling"
    /\ requests' = [requests EXCEPT ![r].st = "finished",
                                    ![r].outcome = "returned"]
    /\ UNCHANGED <<storeVars, phase, reqVars, peer, sessions, script>>

\* the handler raises (a query fails, an attribute of None is read)
HandlerRaises(r) ==
    /\ requests[r].st = "handling"
    /\ requests' = [requests EXCEPT ![r].st = "finished",
                                    ![r].outcome = "raised"]
    /\ UNCHANGED <<storeVars, phase, reqVars, peer, sessions, script>>

\* get_db after its yield: db.close() in the finally clause, and the
\* request is complete
Finish(r) ==
    /\ requests[r].st = "finished"
    /\ sessions' = [sessions EXCEPT ![requests[r].db].open =
                        IF ClosesOn(requests[r].outcome) THEN FALSE ELSE @]
    /\ requests' = [requests EXCEPT ![r].st = "done"]
    /\ UNCHANGED <<storeVars, phase, reqVars, peer, script>>

NextSessions ==
    \E r \in RequestIds :
        \/ Arrive(r)
        \/ Query(r)
        \/ HandlerReturns(r)
        \/ HandlerRaises(r)
        \/ Finish(r)

SpecSessions == InitServing /\ [][NextSessions]_vars

\* the requests that have reached get_db
Arrived == {r \in RequestIds : requests[r].st # "new"}

\* C23: every request that reached get_db has a session of its own, made
\* for it and used by no other request; the session is open while the
\* request is being handled and is closed once the request is complete,
\* whether its handler returned or raised; no session without a request.
C23_SessionPerRequest ==
    /\ Len(sessions) = Cardinality(Arrived)
    /\ \A r \in Arrived :
          /\ requests[r].db \in 1..Len(sessions)
          /\ sessions[requests[r].db].owner = r
          /\ sessions[requests[r].db].open <=> requests[r].st # "done"
    /\ \A r1, r2 \in Arrived : r1 # r2 => requests[r1].db # requests[r2].db
    /\ \A i \in 1..Len(sessions) :
          /\ sessions[i].users \subseteq {sessions[i].owner}
          /\ sessions[i].owner \in Arrived
          /\ requests[sessions[i].owner].db = i

\* a request whose handler raised after a query is complete, while another
\* request is still querying through its own session
C23_Witness ==
    \E r1, r2 \in RequestIds :
        /\ r1 # r2
        /\ requests[r1].st = "done"
        /\ requests[r1].outcome = "raised"
        /\ requests[r1].queried
        /\ ~sessions[requests[r1].db].open
        /\ requests[r2].st = "handling"
        /\ requests[r2].queried
        /\ sessions[requests[r2].db].open

(***************************************************************************)
(* data_loader.py run as a script.                                         *)
(***************************************************************************)
\* most lines of a routes.dat
MaxLines == 2

\* the files routes.dat can be: lines of RouteLines, each at most once
RoutesDat ==
    UNION {{f \in [1..n -> RouteLines] : \A i, j \in 1..n : f[i] = f[j] => i = j}
           : n \in 0..MaxLines}

\* rows a previous run left in database.db, from files that have changed
\* since: an airport and a route that the present files do not hold
PreviousAirports == << Airport(9, Berlin, Germany, "SXF", "EDDB", 52, 13) >>

PreviousRoutes == << Route(1, "SU", 1, "SXF", 9, "SXF", 9, 0) >>

Loaders == {"load_airports", "load_airlines", "load_routes"}

\* the statements of the script with load_routes called first
StatementAfter_RoutesFirst(stmt) ==
    CASE stmt = "drop_all" -> "create_all"
      [] stmt = "create_all" -> "SessionLocal"
      [] stmt = "SessionLocal" -> "load_routes"
      [] stmt = "load_routes" -> "load_airports"
      [] stmt = "load_airports" -> "load_airlines"
      [] stmt = "load_airlines" -> "close"
      [] stmt = "close" -> "exit"

\* the statements of the script in the order of the text
StatementAfter(stmt) ==
    CASE stmt = "drop_all" -> "create_all"
      [] stmt = "create_all" -> "SessionLocal"
      [] stmt = "SessionLocal" -> "load_airports"
      [] stmt = "load_airports" -> "load_airlines"
      [] stmt = "load_airlines" -> "load_routes"
      [] stmt = "load_routes" -> "close"
      [] stmt = "close" -> "exit"

\* the script starts on the database a previous run left, or on none, with
\* one of the files as routes.dat
InitScriptOn(files) ==
    /\ airports \in {<<>>, PreviousAirports \o LoadedAirports}
    /\ airlines \in {<<>>, LoadedAirlines}
    /\ routes \in {<<>>, PreviousRoutes}
    /\ phase = "import"
    /\ fn = "none"
    /\ args = <<>>
    /\ pc = "idle"
    /\ offset = 0
    /\ dep_ids = <<>>
    /\ arr_ids = <<>>
    /\ first_legs = <<>>
    /\ via_ids = <<>>
    /\ second_legs = <<>>
    /\ results = <<>>
    /\ ret = NoReturn
    /\ qlog = <<>>
    /\ peer = NoPeer
    /\ requests = NoRequests
    /\ sessions = <<>>
    /\ \E f \in files :
          script = [pc |-> "drop_all", file |-> f, tables |-> TRUE,
                    previous |-> Len(airports) + Len(airlines) + Len(routes),
                    open |-> FALSE, pending |-> <<>>, next |-> 1,
                    committed |-> <<>>, raised |-> FALSE]

InitScript == InitScriptOn(RoutesDat)

ScriptFrame == UNCHANGED <<phase, reqVars, peer, httpVars>>

\* Base.metadata.drop_all(bind=engine)
DropAll ==
    /\ script.pc = "drop_all"
    /\ airports' = <<>>
    /\ airlines' = <<>>
    /\ routes' = <<>>
    /\ script' = [script EXCEPT !.pc = StatementAfter(@), !.tables = FALSE]
    /\ ScriptFrame

\* Base.metadata.create_all(bind=engine)
CreateAll ==
    /\ script.pc = "create_all"
    /\ script' = [script EXCEPT !.pc = StatementAfter(@), !.tables = TRUE]
    /\ UNCHANGED storeVars
    /\ ScriptFrame

\* db = SessionLocal()
OpenSession ==
    /\ script.pc = "SessionLocal"
    /\ script' = [script EXCEPT !.pc = StatementAfter(@), !.open = TRUE]
    /\ UNCHANGED storeVars
    /\ ScriptFrame

\* session.add(Airport(...)) for the next line of airports.dat
AddAirport ==
    /\ script.pc = "load_airports"
    /\ script.next <= Len(LoadedAirports)
    /\ script' = [script EXCEPT !.pending = Append(@, LoadedAirports[script.next]),
                                !.next = @ + 1]
    /\ UNCHANGED storeVars
    /\ ScriptFrame

\* session.commit() of load_airports
CommitAirports ==
    /\ script.pc = "load_airports"
    /\ script.next > Len(LoadedAirports)
    /\ airports' = airports \o script.pending
    /\ script' = [script EXCEPT !.pc = StatementAfter(@), !.pending = <<>>,
                                !.next = 1,
                                !.committed = Append(@, "airports")]
    /\ UNCHANGED <<airlines, routes>>
    /\ ScriptFrame

\* session.add(Airline(...)) for the next line of airlines.dat
AddAirline ==
    /\ script.pc = "load_airlines"
    /\ script.next <= Len(LoadedAirlines)
    /\ script' = [script EXCEPT !.pending = Append(@, LoadedAirlines[script.next]),
                                !.next = @ + 1]
    /\ UNCHANGED storeVars
    /\ ScriptFrame

\* session.commit() of load_airlines
CommitAirlines ==
    /\ script.pc = "load_airlines"
    /\ script.next > Len(LoadedAirlines)
    /\ airlines' = airlines \o script.pending
    /\ script' = [script EXCEPT !.pc = StatementAfter(@), !.pending = <<>>,
                                !.next = 1,
                                !.committed = Append(@, "airlines")]
    /\ UNCHANGED <<airports, routes>>
    /\ ScriptFrame

\* the rows one iteration of the loop of load_routes adds to the session:
\* the airports and airlines it finds are the committed ones
AddedByRow(row) == SubSeq(LoadRoutesRow(row), Len(routes) + 1, Len(LoadRoutesRow(row)))

\* Route(...) cannot be built from the line: both airports were found, and
\* int(row[7]) raises ValueError
StopsRaise(row) ==
    /\ FirstByCode(airports, row.src) # NoRow
    /\ FirstByCode(airports, row.dst) # NoRow
    /\ IsDigit(row.stops)
    /\ IntRaises(row.stops)

\* the next line of routes.dat
AddRoute ==
    /\ script.pc = "load_routes"
    /\ script.next <= Len(script.file)
    /\ ~StopsRaise(script.file[script.next])
    /\ script' = [script EXCEPT !.pending = @ \o AddedByRow(script.file[script.next]),
                                !.next = @ + 1]
    /\ UNCHANGED storeVars
    /\ ScriptFrame

\* session.commit() of load_routes: the flush numbers the rows in the
\* order they were added
CommitRoutes ==
    /\ script.pc = "load_routes"
    /\ script.next > Len(script.file)
    /\ routes' = routes \o [i \in 1..Len(script.pending) |->
                               [script.pending[i] EXCEPT !.id = Len(routes) + i]]
    /\ script' = [script EXCEPT !.pc = StatementAfter(@), !.pending = <<>>,
                                !.next = 1,
                                !.committed = Append(@, "routes")]
    /\ UNCHANGED <<airports, airlines>>
    /\ ScriptFrame

\* a loader raises (a file is missing, a field does not convert, the commit
\* fails): control passes to the finally clause
LoaderRaises ==
    /\ script.pc \in Loaders
    /\ script' = [script EXCEPT !.pc = "close", !.raised = TRUE]
    /\ UNCHANGED storeVars
    /\ ScriptFrame

\* finally: db.close(), which discards what was not committed
CloseSession ==
    /\ script.pc = "close"
    /\ script' = [script EXCEPT !.pc = StatementAfter(@), !.open = FALSE,
                                !.pending = <<>>]
    /\ UNCHANGED storeVars
    /\ ScriptFrame

NextScript ==
    \/ DropAll
    \/ CreateAll
    \/ OpenSession
    \/ AddAirport
    \/ CommitAirports
    \/ AddAirline
    \/ CommitAirlines
    \/ AddRoute
    \/ CommitRoutes
    \/ LoaderRaises
    \/ CloseSession

SpecScript == InitScript /\ [][NextScript]_vars

\* the commits so far are the first ones of airports, airlines, routes
CommitsInOrder ==
    script.committed \in {<<>>, <<"airports">>, <<"airports", "airlines">>,
                          <<"airports", "airlines", "routes">>}

\* C24: the tables are dropped and recreated before anything is loaded, the
\* loaders commit in the order airports, airlines, routes, load_routes
\* runs only on the committed airports and airlines of this run, no row of
\* a previous run is left once drop_all has run, and the session is open
\* only between SessionLocal() and the close of the finally clause, so it
\* is closed when the script ends, whether or not a loader raised.
C24_ImportOrder ==
    /\ CommitsInOrder
    /\ script.pc \in {"drop_all", "create_all", "SessionLocal"} =>
          script.committed = <<>> /\ script.pending = <<>>
    /\ script.pc # "drop_all" =>
          /\ Range(airports) \cap Range(PreviousAirports) = {}
          /\ Range(routes) \cap Range(PreviousRoutes) = {}
          /\ \A i \in 1..Len(routes) :
                /\ routes[i].id = i
                /\ \E j \in 1..Len(script.file) : FromLine(routes[i], script.file[j])
    /\ script.pc \in {"create_all"} => storeVars = <<<<>>, <<>>, <<>>>>
    /\ script.pc = "load_routes" =>
          /\ script.committed = <<"airports", "airlines">>
          /\ airports = LoadedAirports
          /\ airlines = LoadedAirlines
          /\ routes = <<>>
    /\ script.open <=> script.pc \in Loaders \cup {"close"}
    /\ script.pc = "exit" =>
          /\ ~script.open
          /\ script.pending = <<>>
          /\ script.raised <=> Len(script.committed) < 3
          /\ Len(script.committed) >= 1 => airports = LoadedAirports
          /\ Len(script.committed) >= 2 => airlines = LoadedAirlines
          /\ Len(script.committed) < 3 => routes = <<>>

\* a run over a database with rows of a previous run ended in load_routes
\* raising after a line had been resolved: the session is closed, and the
\* tables hold the airports and airlines of this run and no route
C24_Witness ==
    /\ script.pc = "exit"
    /\ script.previous > Len(LoadedAirports) + Len(LoadedAirlines)
    /\ script.raised
    /\ script.committed = <<"airports", "airlines">>
    /\ script.next > 1
    /\ ~script.open
    /\ airports = LoadedAirports
    /\ routes = <<>>

(***************************************************************************)
(* The stops field of routes.dat, from the import to the two searches that *)
(* read Route.stops.                                                       *)
(***************************************************************************)
\* stops fields: empty, \N, negative, not numeric, digits, and a character
\* that only isdigit() takes for a digit
StopsFields ==
    { <<>>, <<"\\", "N">>, <<"-", "1">>, <<"x">>, <<"0">>, <<"1", "0">>,
      <<SuperscriptTwo>> }

\* routes.dat with a line Berlin -> Dubai and a line Dubai -> Singapore
StopsDat ==
    { << Line("SU", "TXL", "OMDB", s1), Line("", "OMDB", "", s2) >>
      : s1 \in StopsFields, s2 \in StopsFields }

\* the script runs on an empty database.db
InitStops ==
    /\ InitScriptOn(StopsDat)
    /\ airports = <<>>
    /\ airlines = <<>>
    /\ routes = <<>>

\* the script has ended without an exception; the application is started
\* on database.db
StartServing ==
    /\ script.pc = "exit"
    /\ ~script.raised
    /\ phase = "import"
    /\ phase' = "serving"
    /\ UNCHANGED <<storeVars, reqVars, peer, sessionVars>>

NextStops ==
    \/ DropAll
    \/ CreateAll
    \/ OpenSession
    \/ AddAirport
    \/ CommitAirports
    \/ AddAirline
    \/ CommitAirlines
    \/ AddRoute
    \/ CommitRoutes
    \/ LoaderRaises
    \/ CloseSession
    \/ StartServing
    \/ CallConnecting
    \/ ResolveDep
    \/ ResolveArr
    \/ FetchFirstLegs
    \/ FetchSecondLegs
    \/ JoinLoop
    \/ SliceAndReturn
    \/ get_direct_flights_between_cities
    \/ EndRequest

SpecStops == InitStops /\ [][NextStops]_vars

\* a string of one or more of the digits 0..9
DecimalString(s) == Len(s) > 0 /\ \A i \in 1..Len(s) : s[i] \in Range(DecimalChars)

\* the route was persisted from a line whose stops field is not such a string
FromNonDigitLine(r) ==
    \E j \in 1..Len(script.file) :
        FromLine(r, script.file[j]) /\ ~DecimalString(script.file[j].stops)

\* C25: every persisted route has a stop count that is a non-negative
\* integer, and 0 when the stops field of its line is not a string of
\* digits; such a route passes the stops filter of both searches:
\* get_direct_flights_between_cities counts it when it runs between the two
\* cities, and get_connecting_flights fetches it as a first leg when it
\* leaves a departure airport and as a second leg when it runs from a via
\* airport to an arrival airport.
C25_StopsNonNegative ==
    /\ \A i \in 1..Len(routes) :
          /\ routes[i].stops \in Nat
          /\ FromNonDigitLine(routes[i]) => routes[i].stops = 0
          /\ \A j \in 1..Len(script.file) :
                (FromLine(routes[i], script.file[j]) /\ DecimalString(script.file[j].stops))
                    => routes[i].stops = ToInt(script.file[j].stops)
    /\ (Direct /\ Returned) =>
          \A a \in {City1Ids}, b \in {City2Ids} :
              /\ ret.total >= Cardinality({i \in 1..Len(routes) :
                                  /\ FromNonDigitLine(routes[i])
                                  /\ \/ routes[i].source_id \in a /\ routes[i].dest_id \in b
                                     \/ routes[i].source_id \in b /\ routes[i].dest_id \in a})
              /\ (args.page.v = 1 /\ args.per_page >= ret.total) =>
                    \A i \in 1..Len(routes) :
                        (/\ FromNonDigitLine(routes[i])
                         /\ \/ routes[i].source_id \in a /\ routes[i].dest_id \in b
                            \/ routes[i].source_id \in b /\ routes[i].dest_id \in a)
                            => routes[i] \in Range(ret.items)
    /\ (Connecting /\ pc \in {"second", "join", "slice"}) =>
          \A i \in 1..Len(routes) :
              (FromNonDigitLine(routes[i]) /\ routes[i].source_id \in Range(dep_ids))
                  => routes[i] \in Range(first_legs)
    /\ (Connecting /\ pc \in {"join", "slice"}) =>
          \A i \in 1..Len(routes) :
              (/\ FromNonDigitLine(routes[i])
               /\ routes[i].source_id \in Range(via_ids)
               /\ routes[i].dest_id \in Range(arr_ids))
                  => routes[i] \in Range(second_legs)

\* an itinerary was returned whose first leg comes from a line with a
\* negative stops field and whose second leg from a line with \N
C25_Witness ==
    /\ Connecting /\ Returned
    /\ script.file[1].stops = <<"-", "1">>
    /\ script.file[2].stops = <<"\\", "N">>
    /\ Len(routes) = 2
    /\ \E k \in 1..Len(ret.items) :
          ret.items[k].leg1 = routes[1].id /\ ret.items[k].leg2 = routes[2].id

=============================================================================
